---- MODULE Spec2Model ----
(***************************************************************************)
(* CVNavSystem: the two navigation sessions of the repository.             *)
(*                                                                         *)
(*   src/iphone_gps_api.py  GPS_Navigator.__call__  (heading-capable)      *)
(*   src/gps_api.py         main                    (non-heading)          *)
(*                                                                         *)
(* Coordinates are positions in metres on a small patch; in the sessions   *)
(* they lie on one meridian, where the great-circle distance of two points *)
(* is the absolute difference of their positions.  The providers           *)
(* (directions, location) are the environment: every call draws its answer *)
(* from a small set, failure included.                                     *)
(*                                                                         *)
(* Three programs are checked:                                             *)
(*   SpecNav      GPS_Navigator.__call__ as written, from its first line   *)
(*   SpecNavLoop  the tick loop of GPS_Navigator.__call__ (lines 226-250)  *)
(*                from its entry state with a route installed, the         *)
(*                recomputation call answering as get_directions is        *)
(*                documented to answer                                     *)
(*   SpecMain     gps_api.main as written, from its first line             *)
(*   FairSpecMain SpecMain with the loop always making its next step       *)
(***************************************************************************)
EXTENDS Integers, Sequences, FiniteSets, TLC

VARIABLES pc, current_location, response, steps, step_idx,
          prev_distance, distance, prev_step, closest_step, event, onplan,
          last_notified, heading_reads, call

vars == <<pc, current_location, response, steps, step_idx,
          prev_distance, distance, prev_step, closest_step, event, onplan,
          last_notified, heading_reads, call>>

(***************************************************************************)
(* Bounds of the model.                                                    *)
(***************************************************************************)
MaxNavCoord == 4
MaxMainCoord == 3
MaxNavSteps == 3
MaxMainSteps == 2
MaxInstr == 2
MaxGeoCoord == 2
MaxConvSteps == 2
MaxRouteText == 3

(***************************************************************************)
(* Python values.  None is one value, lists are wrapped so that a variable *)
(* holding "a list or None" has one shape.                                 *)
(***************************************************************************)
None == [none |-> TRUE]
List(s) == [list |-> s]

Abs(n) == IF n < 0 THEN -n ELSE n

(***************************************************************************)
(* src/iphone_gps_api.py                                                   *)
(***************************************************************************)
eps == 3

\* (latitude, longitude) in metres; the samples and step ends of a session
\* lie on one meridian, 2 m apart: neighbours are within eps, next-but-one
\* are not
NavCoords == {<<2 * k, 0>> : k \in 0..MaxNavCoord}

NavStep == [end_location : NavCoords]

NavRoutes == UNION {[1..n -> NavStep] : n \in 0..MaxNavSteps}

\* what the directions provider may answer: 200/OK with the steps of the
\* first leg, 200 with a non-OK status, or a non-200 HTTP status
NavResponses ==
    {[http |-> 200, status |-> "OK", steps |-> r] : r \in NavRoutes}
    \cup {[http |-> 200, status |-> "ZERO_RESULTS", steps |-> <<>>],
          [http |-> 500, status |-> "", steps |-> <<>>]}

\* Haversine distance over a patch of a few metres, in whole metres: to the
\* precision of the grid sin(x/2) = x/2 and cos(lat) = 1, so
\* a = (dlat^2 + dlon^2) / 4 and R * c = sqrt(dlat^2 + dlon^2), rounded down;
\* on one meridian (dlon = 0) that is |dlat|
geodesic_distance_index_slip(coord_1, coord_2) ==
    LET dlon == coord_2[2] - coord_1[1]
        dlat == coord_2[1] - coord_1[1]
        a == dlat * dlat + dlon * dlon
    IN  CHOOSE c \in 0..(Abs(dlat) + Abs(dlon)) :
            c * c <= a /\ a < (c + 1) * (c + 1)

geodesic_distance(coord_1, coord_2) ==
    LET dlon == coord_2[2] - coord_1[2]
        dlat == coord_2[1] - coord_1[1]
        a == dlat * dlat + dlon * dlon
    IN  CHOOSE c \in 0..(Abs(dlat) + Abs(dlon)) :
            c * c <= a /\ a < (c + 1) * (c + 1)

\* get_directions as written: the OK branch converts the steps and then
\* falls off the end of the function, so every path returns None
GPS_Navigator_get_directions(resp) ==
    IF resp.http = 200
    THEN IF resp.status = "OK"
         THEN None
         ELSE None
    ELSE None

\* the heading reads of one get_directions call: convert_to_turn_directions
\* (line 69, reading the heading at line 129) is called in the 200/OK branch
\* only
GPS_Navigator_heading_reads(resp) ==
    IF resp.http = 200
    THEN IF resp.status = "OK"
         THEN 1
         ELSE 0
    ELSE 0

\* get_directions as its signature and docstring state it:
\* "A list of steps in the directions or None if an error occurs"
GPS_Navigator_get_directions_documented(resp) ==
    IF resp.http = 200
    THEN IF resp.status = "OK"
         THEN List(resp.steps)
         ELSE None
    ELSE None

----------------------------------------------------------------------------
(***************************************************************************)
(* GPS_Navigator.__call__ as written (lines 217-227).                      *)
(***************************************************************************)
InitNav ==
    /\ pc = "start"
    /\ current_location = -1
    /\ response = None
    /\ steps = None
    /\ step_idx = 0
    /\ prev_distance = -1
    /\ distance = -1
    /\ prev_step = None
    /\ closest_step = None
    /\ event = "none"
    /\ onplan = -1
    /\ last_notified = 0
    /\ heading_reads = 0
    /\ call = None

\* line 217: the location provider answers
NavStart ==
    /\ pc = "start"
    /\ \E loc \in NavCoords : current_location' = loc
    /\ pc' = "fetch"
    /\ UNCHANGED <<response, steps, step_idx, prev_distance, distance,
                   prev_step, closest_step, event, onplan>>
    /\ UNCHANGED <<last_notified, heading_reads, call>>

\* line 217: the location provider fails, the exception is not caught
NavStartFail ==
    /\ pc = "start"
    /\ pc' = "crashed"
    /\ event' = "loc_failed"
    /\ UNCHANGED <<current_location, response, steps, step_idx, prev_distance,
                   distance, prev_step, closest_step, onplan>>
    /\ UNCHANGED <<last_notified, heading_reads, call>>

\* lines 219-227: the initial fetch, then return or loop entry
NavFetch ==
    /\ pc = "fetch"
    /\ \E resp \in NavResponses :
         LET new == GPS_Navigator_get_directions(resp)
         IN  /\ response' = resp
             /\ steps' = new
             /\ heading_reads' = GPS_Navigator_heading_reads(resp)
             /\ IF new = None
                THEN /\ pc' = "done"
                     /\ UNCHANGED <<step_idx, prev_distance, onplan>>
                ELSE IF new.list = <<>>
                THEN /\ pc' = "crashed"
                     /\ step_idx' = 0
                     /\ UNCHANGED <<prev_distance, onplan>>
                ELSE /\ pc' = "loop"
                     /\ step_idx' = 0
                     /\ prev_distance' =
                          geodesic_distance(current_location,
                                            new.list[1].end_location)
                     /\ onplan' = 0
    /\ UNCHANGED <<current_location, distance, prev_step, closest_step, event>>
    /\ UNCHANGED <<last_notified, call>>

NextNav == NavStart \/ NavStartFail \/ NavFetch

SpecNav == InitNav /\ [][NextNav]_vars

----------------------------------------------------------------------------
(***************************************************************************)
(* The tick loop of GPS_Navigator.__call__ (lines 226-250), entered with a *)
(* route installed.  As written, get_directions never returns a route and  *)
(* the loop is dead code under SpecNav; here the loop is entered the way   *)
(* line 219 would enter it if get_directions answered as documented, and   *)
(* the recomputation of line 239 answers as documented.                    *)
(*                                                                         *)
(* heading_reads is the number of heading reads made by the latest         *)
(* get_directions call or tick of the loop.                                *)
(* onplan observes the samples: onplan = k >= 0 says that so far the loop  *)
(* has polled exactly k samples, the i-th of them within the arrival       *)
(* threshold of the end of step i of the installed route, and that the     *)
(* route has not been replaced; onplan = -1 otherwise.                     *)
(***************************************************************************)
InitNavLoop ==
    /\ pc = "loop"
    /\ current_location \in NavCoords
    /\ \E r \in NavRoutes \ {<<>>} :
         /\ response = [http |-> 200, status |-> "OK", steps |-> r]
         /\ steps = List(r)
    /\ step_idx = 0
    /\ prev_distance =
         geodesic_distance(current_location, steps.list[1].end_location)
    /\ distance = -1
    /\ prev_step = None
    /\ closest_step = None
    /\ event = "none"
    /\ onplan = 0
    /\ last_notified = 0
    /\ heading_reads = 1
    /\ call = None

\* line 229: the loop condition is false, __call__ returns
NavLoopExit ==
    /\ pc = "loop"
    /\ ~(step_idx < Len(steps.list))
    /\ pc' = "done"
    /\ UNCHANGED <<current_location, response, steps, step_idx, prev_distance,
                   distance, prev_step, closest_step, event, onplan>>
    /\ UNCHANGED <<last_notified, heading_reads, call>>

\* lines 229-230: the loop condition is true, the location provider answers
NavPoll ==
    /\ pc = "loop"
    /\ step_idx < Len(steps.list)
    /\ \E loc \in NavCoords :
         /\ current_location' = loc
         /\ onplan' =
              IF /\ onplan >= 0
                 /\ onplan < Len(steps.list)
                 /\ geodesic_distance(
                        loc, steps.list[onplan + 1].end_location) < eps
              THEN onplan + 1
              ELSE -1
    /\ pc' = "tick"
    /\ UNCHANGED <<response, steps, step_idx, prev_distance, distance,
                   prev_step, closest_step, event>>
    /\ UNCHANGED <<last_notified, heading_reads, call>>

\* line 230: the location provider fails, the exception is not caught
NavPollFail ==
    /\ pc = "loop"
    /\ step_idx < Len(steps.list)
    /\ pc' = "crashed"
    /\ event' = "loc_failed"
    /\ onplan' = -1
    /\ UNCHANGED <<current_location, response, steps, step_idx, prev_distance,
                   distance, prev_step, closest_step>>
    /\ UNCHANGED <<last_notified, heading_reads, call>>

\* line 231: the distance of the sample, measured to the end of steps[0]
NavDistance ==
    geodesic_distance(current_location, steps.list[1].end_location)

\* lines 233-236, 249: arrival
NavArrive ==
    /\ pc = "tick"
    /\ NavDistance < eps
    /\ distance' = NavDistance
    /\ step_idx' = step_idx + 1
    /\ prev_distance' = NavDistance
    /\ event' = "arrived"
    /\ pc' = "loop"
    /\ UNCHANGED <<current_location, response, steps, prev_step,
                   closest_step, onplan>>
    /\ heading_reads' = 0
    /\ UNCHANGED <<last_notified, call>>

\* lines 237-249: off route, the new route is installed; line 249 then
\* overwrites the prev_distance of line 247 with the distance of line 231
NavRerouted ==
    /\ pc = "tick"
    /\ ~(NavDistance < eps)
    /\ NavDistance > prev_distance
    /\ \E resp \in NavResponses :
         LET new == GPS_Navigator_get_directions_documented(resp)
         IN  /\ new # None
             /\ new.list # <<>>
             /\ response' = resp
             /\ steps' = new
             /\ heading_reads' = GPS_Navigator_heading_reads(resp)
    /\ distance' = NavDistance
    /\ step_idx' = 0
    /\ prev_distance' = NavDistance
    /\ event' = "rerouted"
    /\ onplan' = -1
    /\ pc' = "loop"
    /\ UNCHANGED <<current_location, prev_step, closest_step>>
    /\ UNCHANGED <<last_notified, call>>

\* lines 237-247: off route, the new route has no step: steps[0] of
\* line 247 raises IndexError
NavRerouteEmpty ==
    /\ pc = "tick"
    /\ ~(NavDistance < eps)
    /\ NavDistance > prev_distance
    /\ \E resp \in NavResponses :
         LET new == GPS_Navigator_get_directions_documented(resp)
         IN  /\ new # None
             /\ new.list = <<>>
             /\ response' = resp
             /\ steps' = new
             /\ heading_reads' = GPS_Navigator_heading_reads(resp)
    /\ distance' = NavDistance
    /\ step_idx' = 0
    /\ event' = "reroute_crashed"
    /\ onplan' = -1
    /\ pc' = "crashed"
    /\ UNCHANGED <<current_location, prev_distance, prev_step, closest_step>>
    /\ UNCHANGED <<last_notified, call>>

\* lines 237-242: off route, the recomputation fails, __call__ returns
NavRerouteFailed ==
    /\ pc = "tick"
    /\ ~(NavDistance < eps)
    /\ NavDistance > prev_distance
    /\ \E resp \in NavResponses :
         /\ GPS_Navigator_get_directions_documented(resp) = None
         /\ response' = resp
         /\ heading_reads' = GPS_Navigator_heading_reads(resp)
    /\ steps' = None
    /\ distance' = NavDistance
    /\ event' = "reroute_failed"
    /\ onplan' = -1
    /\ pc' = "done"
    /\ UNCHANGED <<current_location, step_idx, prev_distance, prev_step,
                   closest_step>>
    /\ UNCHANGED <<last_notified, call>>

\* lines 233, 237 both false, line 249
NavNoChange_stale ==
    /\ pc = "tick"
    /\ ~(NavDistance < eps)
    /\ ~(NavDistance > prev_distance)
    /\ distance' = NavDistance
    /\ event' = "nochange"
    /\ pc' = "loop"
    /\ UNCHANGED <<current_location, response, steps, step_idx, prev_step,
                   closest_step, onplan, prev_distance>>
    /\ heading_reads' = 0
    /\ UNCHANGED <<last_notified, call>>

NavNoChange ==
    /\ pc = "tick"
    /\ ~(NavDistance < eps)
    /\ ~(NavDistance > prev_distance)
    /\ distance' = NavDistance
    /\ prev_distance' = NavDistance
    /\ event' = "nochange"
    /\ pc' = "loop"
    /\ UNCHANGED <<current_location, response, steps, step_idx, prev_step,
                   closest_step, onplan>>
    /\ heading_reads' = 0
    /\ UNCHANGED <<last_notified, call>>

NextNavLoop ==
    \/ NavLoopExit
    \/ NavPoll
    \/ NavPollFail
    \/ NavArrive
    \/ NavRerouted
    \/ NavRerouteEmpty
    \/ NavRerouteFailed
    \/ NavNoChange

SpecNavLoop == InitNavLoop /\ [][NextNavLoop]_vars

----------------------------------------------------------------------------
(***************************************************************************)
(* src/gps_api.py                                                          *)
(***************************************************************************)
threshold == 50

inf == 1000000

\* positions 25 m apart: neighbours are within the threshold, positions
\* 50 m apart are not (50 < 50 is false)
MainCoords == {25 * k : k \in 0..MaxMainCoord}

\* instruction texts, told apart by a number
Instructions == 1..MaxInstr

MainStep == [end_location : MainCoords, html_instructions : Instructions]

MainRoutes == UNION {[1..n -> MainStep] : n \in 0..MaxMainSteps}

MainResponses ==
    {[http |-> 200, status |-> "OK", steps |-> r] : r \in MainRoutes}
    \cup {[http |-> 200, status |-> "ZERO_RESULTS", steps |-> <<>>],
          [http |-> 500, status |-> "", steps |-> <<>>]}

\* geopy's geodesic(...).meters of two points on one meridian
geodesic(step_coords, user_coords) == Abs(step_coords - user_coords)

\* lines 42-53: the steps of the first leg, whatever their number, or None
get_directions(resp) ==
    IF resp.http = 200
    THEN IF resp.status = "OK"
         THEN List(resp.steps)
         ELSE None
    ELSE None

\* lines 88-96 with "<=" at line 94: the last of the nearest steps wins
closest_from_last(loc, route, i, closest, min_distance) ==
    LET d(j) == geodesic(route[j].end_location, loc)
        nearest == {j \in i..Len(route) :
                      /\ d(j) <= min_distance
                      /\ \A k \in i..Len(route) : d(j) <= d(k)}
    IN  IF nearest = {}
        THEN <<closest, min_distance>>
        ELSE LET j == CHOOSE j \in nearest : \A k \in nearest : k <= j
             IN  <<route[j], d(j)>>

\* lines 88-96: the for loop from step i on, carrying closest_step and
\* min_distance
RECURSIVE closest_from(_, _, _, _, _)
closest_from(loc, route, i, closest, min_distance) ==
    IF i > Len(route)
    THEN <<closest, min_distance>>
    ELSE LET d == geodesic(route[i].end_location, loc)
         IN  IF d < min_distance
             THEN closest_from(loc, route, i + 1, route[i], d)
             ELSE closest_from(loc, route, i + 1, closest, min_distance)

get_closest_step(loc, route) == closest_from(loc, route, 1, None, inf)

\* the instruction texts of a route differ pairwise
DistinctInstructions(route) ==
    \A i, j \in 1..Len(route) :
        i # j => route[i].html_instructions # route[j].html_instructions

(***************************************************************************)
(* gps_api.main.  In this program onplan = k >= 0 says: every provider     *)
(* call so far succeeded, the route (once fetched) is the initial one, it  *)
(* has at least one step and pairwise distinct instructions, and the       *)
(* samples polled by the loop so far came within the threshold of the ends *)
(* of steps 1..k in route order, staying within the threshold of the end   *)
(* of the last step once it was reached; onplan = -1 otherwise.            *)
(***************************************************************************)
InitMain ==
    /\ pc = "start"
    /\ current_location = -1
    /\ response = None
    /\ steps = None
    /\ step_idx = 0
    /\ prev_distance = -1
    /\ distance = -1
    /\ prev_step = None
    /\ closest_step = None
    /\ event = "none"
    /\ onplan = 0
    /\ last_notified = 0
    /\ heading_reads = 0
    /\ call = None

\* lines 136-142: no API key in the environment
MainNoApiKey ==
    /\ pc = "start"
    /\ pc' = "done"
    /\ UNCHANGED <<current_location, response, steps, step_idx, prev_distance,
                   distance, prev_step, closest_step, event, onplan>>
    /\ UNCHANGED <<last_notified, heading_reads, call>>

\* line 144: the location provider answers
MainStart ==
    /\ pc = "start"
    /\ \E loc \in MainCoords : current_location' = loc
    /\ pc' = "fetch"
    /\ UNCHANGED <<response, steps, step_idx, prev_distance, distance,
                   prev_step, closest_step, event, onplan>>
    /\ UNCHANGED <<last_notified, heading_reads, call>>

\* line 144: the location provider fails, the exception is not caught
MainStartFail ==
    /\ pc = "start"
    /\ pc' = "crashed"
    /\ event' = "loc_failed"
    /\ onplan' = -1
    /\ UNCHANGED <<current_location, response, steps, step_idx, prev_distance,
                   distance, prev_step, closest_step>>
    /\ UNCHANGED <<last_notified, heading_reads, call>>

\* MainFetch without the return of lines 149-150
MainFetch_no_return ==
    /\ pc = "fetch"
    /\ \E resp \in MainResponses :
         LET new == get_directions(resp)
         IN  /\ response' = resp
             /\ steps' = new
             /\ IF new = None
                THEN /\ pc' = "loop"
                     /\ onplan' = -1
                     /\ UNCHANGED <<closest_step, prev_step, step_idx,
                                    last_notified>>
                ELSE IF new.list = <<>>
                THEN /\ pc' = "crashed"
                     /\ onplan' = -1
                     /\ UNCHANGED <<closest_step, prev_step, step_idx,
                                    last_notified>>
                ELSE /\ pc' = "loop"
                     /\ closest_step' = new.list[1]
                     /\ last_notified' = new.list[1].html_instructions
                     /\ prev_step' = new.list[1]
                     /\ step_idx' = 0
                     /\ onplan' = IF DistinctInstructions(new.list)
                                  THEN 0 ELSE -1
    /\ UNCHANGED <<current_location, prev_distance, distance, event>>
    /\ UNCHANGED <<heading_reads, call>>

\* lines 147-165: the initial fetch; None returns, an empty list raises
\* IndexError at steps[0] of line 159, a route enters the loop
MainFetch ==
    /\ pc = "fetch"
    /\ \E resp \in MainResponses :
         LET new == get_directions(resp)
         IN  /\ response' = resp
             /\ steps' = new
             /\ IF new = None
                THEN /\ pc' = "done"
                     /\ onplan' = -1
                     /\ UNCHANGED <<closest_step, prev_step, step_idx,
                                    last_notified>>
                ELSE IF new.list = <<>>
                THEN /\ pc' = "crashed"
                     /\ onplan' = -1
                     /\ UNCHANGED <<closest_step, prev_step, step_idx,
                                    last_notified>>
                ELSE /\ pc' = "loop"
                     /\ closest_step' = new.list[1]
                     /\ last_notified' = new.list[1].html_instructions
                     /\ prev_step' = new.list[1]
                     /\ step_idx' = 0
                     /\ onplan' = IF DistinctInstructions(new.list)
                                  THEN 0 ELSE -1
    /\ UNCHANGED <<current_location, prev_distance, distance, event>>
    /\ UNCHANGED <<heading_reads, call>>

\* line 167: the loop condition is false, main returns
MainLoopExit ==
    /\ pc = "loop"
    /\ steps # None
    /\ ~(step_idx <= Len(steps.list))
    /\ pc' = "done"
    /\ UNCHANGED <<current_location, response, steps, step_idx, prev_distance,
                   distance, prev_step, closest_step, event, onplan>>
    /\ UNCHANGED <<last_notified, heading_reads, call>>

\* line 167: steps is None, len(steps) raises TypeError
MainLoopCrash ==
    /\ pc = "loop"
    /\ steps = None
    /\ pc' = "crashed"
    /\ UNCHANGED <<current_location, response, steps, step_idx, prev_distance,
                   distance, prev_step, closest_step, event, onplan>>
    /\ UNCHANGED <<last_notified, heading_reads, call>>

\* lines 167-168: the loop condition is true, the location provider answers
MainPoll ==
    /\ pc = "loop"
    /\ steps # None
    /\ step_idx <= Len(steps.list)
    /\ \E loc \in MainCoords :
         /\ current_location' = loc
         /\ onplan' =
              IF onplan >= 0
              THEN LET k == IF onplan < Len(steps.list)
                            THEN onplan + 1 ELSE onplan
                   IN  IF geodesic(steps.list[k].end_location, loc) < threshold
                       THEN k ELSE -1
              ELSE -1
    /\ pc' = "tick"
    /\ UNCHANGED <<response, steps, step_idx, prev_distance, distance,
                   prev_step, closest_step, event>>
    /\ UNCHANGED <<last_notified, heading_reads, call>>

\* line 168: the location provider fails, the exception is not caught
MainPollFail ==
    /\ pc = "loop"
    /\ steps # None
    /\ step_idx <= Len(steps.list)
    /\ pc' = "crashed"
    /\ event' = "loc_failed"
    /\ onplan' = -1
    /\ UNCHANGED <<current_location, response, steps, step_idx, prev_distance,
                   distance, prev_step, closest_step>>
    /\ UNCHANGED <<last_notified, heading_reads, call>>

\* line 170
MainClosest == get_closest_step(current_location, steps.list)

\* lines 172-181: within the threshold of a step whose instruction differs
\* from prev_step's
MainArrive ==
    /\ pc = "tick"
    /\ MainClosest[2] < threshold
    /\ prev_step # None
    /\ prev_step.html_instructions # MainClosest[1].html_instructions
    /\ closest_step' = MainClosest[1]
    /\ distance' = MainClosest[2]
    /\ prev_step' = MainClosest[1]
    /\ step_idx' = step_idx + 1
    /\ event' = "arrived"
    /\ pc' = "loop"
    /\ UNCHANGED <<current_location, response, steps, prev_distance, onplan>>
    /\ last_notified' = MainClosest[1].html_instructions
    /\ UNCHANGED <<heading_reads, call>>

\* lines 172-175: within the threshold of a step with prev_step's instruction
MainSame ==
    /\ pc = "tick"
    /\ MainClosest[2] < threshold
    /\ prev_step # None
    /\ prev_step.html_instructions = MainClosest[1].html_instructions
    /\ closest_step' = MainClosest[1]
    /\ distance' = MainClosest[2]
    /\ event' = "same"
    /\ pc' = "loop"
    /\ UNCHANGED <<current_location, response, steps, step_idx, prev_distance,
                   prev_step, onplan>>
    /\ UNCHANGED <<last_notified, heading_reads, call>>

\* line 173: prev_step is None (set by line 194 after a tick on an empty
\* route), prev_step.get raises AttributeError
MainPrevNone ==
    /\ pc = "tick"
    /\ MainClosest[2] < threshold
    /\ prev_step = None
    /\ closest_step' = MainClosest[1]
    /\ distance' = MainClosest[2]
    /\ event' = "prev_none"
    /\ onplan' = -1
    /\ pc' = "crashed"
    /\ UNCHANGED <<current_location, response, steps, step_idx, prev_distance,
                   prev_step>>
    /\ UNCHANGED <<last_notified, heading_reads, call>>

\* MainRerouted without the step_idx = 0 of line 196
MainRerouted_no_reset ==
    /\ pc = "tick"
    /\ ~(MainClosest[2] < threshold)
    /\ \E resp \in MainResponses :
         /\ get_directions(resp) # None
         /\ response' = resp
         /\ steps' = get_directions(resp)
    /\ closest_step' = MainClosest[1]
    /\ distance' = MainClosest[2]
    /\ prev_step' = MainClosest[1]
    /\ event' = "rerouted"
    /\ onplan' = -1
    /\ pc' = "loop"
    /\ UNCHANGED <<current_location, prev_distance, step_idx>>
    /\ UNCHANGED <<last_notified, heading_reads, call>>

\* lines 183-196: off route, the recomputation returns a list
MainRerouted ==
    /\ pc = "tick"
    /\ ~(MainClosest[2] < threshold)
    /\ \E resp \in MainResponses :
         /\ get_directions(resp) # None
         /\ response' = resp
         /\ steps' = get_directions(resp)
    /\ closest_step' = MainClosest[1]
    /\ distance' = MainClosest[2]
    /\ prev_step' = MainClosest[1]
    /\ step_idx' = 0
    /\ event' = "rerouted"
    /\ onplan' = -1
    /\ pc' = "loop"
    /\ UNCHANGED <<current_location, prev_distance>>
    /\ UNCHANGED <<last_notified, heading_reads, call>>

\* lines 183-189: off route, the recomputation returns None, which line 187
\* assigns to steps
MainRerouteFailed ==
    /\ pc = "tick"
    /\ ~(MainClosest[2] < threshold)
    /\ \E resp \in MainResponses :
         /\ get_directions(resp) = None
         /\ response' = resp
         /\ steps' = get_directions(resp)
    /\ closest_step' = MainClosest[1]
    /\ distance' = MainClosest[2]
    /\ event' = "reroute_failed"
    /\ onplan' = -1
    /\ pc' = "loop"
    /\ UNCHANGED <<current_location, step_idx, prev_distance, prev_step>>
    /\ UNCHANGED <<last_notified, heading_reads, call>>

NextMain ==
    \/ MainNoApiKey
    \/ MainStart
    \/ MainStartFail
    \/ MainFetch
    \/ MainLoopExit
    \/ MainLoopCrash
    \/ MainPoll
    \/ MainPollFail
    \/ MainArrive
    \/ MainSame
    \/ MainPrevNone
    \/ MainRerouted
    \/ MainRerouteFailed

SpecMain == InitMain /\ [][NextMain]_vars

\* the session is sequential code: whatever statement is next is executed
FairSpecMain == SpecMain /\ WF_vars(NextMain)

----------------------------------------------------------------------------
(***************************************************************************)
(* Single calls of the functions of GPS_Navigator and gps_api.  call holds *)
(* the arguments of the call and, once pc = "returned", its result; the    *)
(* variables of the sessions are not used.                                 *)
(***************************************************************************)
NoSession ==
    /\ current_location = -1
    /\ response = None
    /\ steps = None
    /\ step_idx = 0
    /\ prev_distance = -1
    /\ distance = -1
    /\ prev_step = None
    /\ closest_step = None
    /\ event = "none"
    /\ onplan = -1
    /\ last_notified = 0
    /\ heading_reads = 0

session == <<current_location, response, steps, step_idx, prev_distance,
             distance, prev_step, closest_step, event, onplan,
             last_notified, heading_reads>>

\* lines 32-41
cardinal_directions ==
    [north |-> 0, northeast |-> 45, east |-> 90, southeast |-> 135,
     south |-> 180, southwest |-> 225, west |-> 270, northwest |-> 315]

Cardinals == DOMAIN cardinal_directions

\* the headings get_current_heading can return, in whole degrees
Headings == 0..359

\* lines 111-117
get_turn_direction_le(current_heading, target_cardinal_direction) ==
    LET target_heading == cardinal_directions[target_cardinal_direction]
        angle_diff == (target_heading - current_heading + 360) % 360
    IN  IF angle_diff <= 180 THEN "right" ELSE "left"

get_turn_direction(current_heading, target_cardinal_direction) ==
    LET target_heading == cardinal_directions[target_cardinal_direction]
        angle_diff == (target_heading - current_heading + 360) % 360
    IN  IF angle_diff < 180 THEN "right" ELSE "left"

InitTurn ==
    /\ pc = "call"
    /\ \E h \in Headings, c \in Cardinals :
         call = [fn |-> "get_turn_direction", current_heading |-> h,
                 target_cardinal_direction |-> c, result |-> ""]
    /\ NoSession

TurnCall ==
    /\ pc = "call"
    /\ call.fn = "get_turn_direction"
    /\ call' = [call EXCEPT !.result =
                  get_turn_direction(call.current_heading,
                                     call.target_cardinal_direction)]
    /\ pc' = "returned"
    /\ UNCHANGED session

NextTurn == TurnCall

SpecTurn == InitTurn /\ [][NextTurn]_vars

\* the coordinate pairs handed to single calls of geodesic_distance
GeoCoords == {<<2 * i, 2 * j>> : i, j \in 0..MaxGeoCoord}

InitGeo ==
    /\ pc = "call"
    /\ \E a, b \in GeoCoords :
         call = [fn |-> "geodesic_distance", coord_1 |-> a, coord_2 |-> b,
                 result |-> -1, result_swapped |-> -1]
    /\ NoSession

\* geodesic_distance(coord_1, coord_2)
GeoCall ==
    /\ pc = "call"
    /\ call.fn = "geodesic_distance"
    /\ call' = [call EXCEPT !.result =
                  geodesic_distance(call.coord_1, call.coord_2)]
    /\ pc' = "returned"
    /\ UNCHANGED session

\* geodesic_distance(coord_2, coord_1)
GeoCallSwapped ==
    /\ pc = "returned"
    /\ call.fn = "geodesic_distance"
    /\ call' = [call EXCEPT !.result_swapped =
                  geodesic_distance(call.coord_2, call.coord_1)]
    /\ pc' = "returned_both"
    /\ UNCHANGED session

NextGeo == GeoCall \/ GeoCallSwapped

SpecGeo == InitGeo /\ [][NextGeo]_vars

(***************************************************************************)
(* One call of GPS_Navigator.get_directions with its instruction rewrite   *)
(* (lines 63-82, 119-137).  An instruction text is the concatenation of a  *)
(* sequence of chunks, so that "northeast" is "north" followed directly by *)
(* "east" and contains both as substrings; " on " stands for any text      *)
(* without a cardinal name.                                                *)
(***************************************************************************)
Chunks == {"north", "south", "east", "west", " on "}

\* the spelling of the keys of cardinal_directions, in chunks
spelling ==
    [north |-> <<"north">>, south |-> <<"south">>,
     east |-> <<"east">>, west |-> <<"west">>,
     northeast |-> <<"north", "east">>, northwest |-> <<"north", "west">>,
     southeast |-> <<"south", "east">>, southwest |-> <<"south", "west">>]

\* Python's "old in text"
Contains(text, old) ==
    \E i \in 1..(Len(text) - Len(old) + 1) :
        SubSeq(text, i, i + Len(old) - 1) = old

\* Python's text.replace(old, new): the occurrences of old, left to right and
\* not overlapping, each become new
RECURSIVE replace(_, _, _)
replace(text, old, new) ==
    IF Len(text) < Len(old)
    THEN text
    ELSE IF SubSeq(text, 1, Len(old)) = old
         THEN <<new>> \o replace(SubSeq(text, Len(old) + 1, Len(text)),
                                 old, new)
         ELSE <<Head(text)>> \o replace(Tail(text), old, new)

\* the simple names tried before the compound ones
cardinal_dir_order_simple_first ==
    <<"east", "west", "north", "south",
      "northeast", "northwest", "southeast", "southwest">>

\* line 132: the order in which the names are tried
cardinal_dir_order ==
    <<"northeast", "northwest", "southeast", "southwest",
      "east", "west", "north", "south">>

\* lines 132-135 for one instruction, from the k-th name of the order on
RECURSIVE convert_instruction(_, _, _)
convert_instruction(html_instructions, current_heading, k) ==
    IF k > Len(cardinal_dir_order)
    THEN html_instructions
    ELSE LET cardinal_dir == cardinal_dir_order[k]
         IN  convert_instruction(
                 IF Contains(html_instructions, spelling[cardinal_dir])
                 THEN replace(html_instructions, spelling[cardinal_dir],
                              get_turn_direction(current_heading,
                                                 cardinal_dir))
                 ELSE html_instructions,
                 current_heading, k + 1)

\* the heading read again for every step after the first
convert_to_turn_directions_resample(route, readings) ==
    [index \in 1..Len(route) |->
        [route[index] EXCEPT !.html_instructions =
            convert_instruction(route[index].html_instructions,
                                readings[IF index = 1 THEN 1 ELSE 2], 1)]]

\* lines 129-137; readings are the answers the heading provider gives to a
\* first and to any later read during the call
convert_to_turn_directions(route, readings) ==
    LET current_heading == readings[1]
    IN  [index \in 1..Len(route) |->
            [route[index] EXCEPT !.html_instructions =
                convert_instruction(route[index].html_instructions,
                                    current_heading, 1)]]

\* the headings the provider answers with: 0 puts north straight ahead and
\* south exactly opposite
HeadingSamples == {h \in Headings : h % 120 = 0}

\* the texts of n chunks
ConvTexts(n) == [1..n -> Chunks]

\* the routes of k steps whose instructions, one after the other, are text
Split(text, k) ==
    {[index \in 1..k |->
         [html_instructions |-> SubSeq(text, cut[index - 1] + 1, cut[index])]] :
     cut \in {c \in [0..k -> 0..Len(text)] :
                /\ c[0] = 0
                /\ c[k] = Len(text)
                /\ \A i \in 1..k : c[i - 1] <= c[i]}}

\* routes of at most MaxConvSteps steps with at most MaxRouteText chunks of
\* instruction text in all
ConvRoutes ==
    {<<>>} \cup
    UNION {Split(text, k) : text \in UNION {ConvTexts(n) : n \in 0..MaxRouteText},
                            k \in 1..MaxConvSteps}

ConvResponses ==
    {[http |-> 200, status |-> "OK", steps |-> r] : r \in ConvRoutes}
    \cup {[http |-> 200, status |-> "ZERO_RESULTS", steps |-> <<>>],
          [http |-> 500, status |-> "", steps |-> <<>>]}

\* line 69: the local variable steps of get_directions once the branch is
\* taken, None on the branches that never assign it
GPS_Navigator_get_directions_steps(resp, readings) ==
    IF resp.http = 200
    THEN IF resp.status = "OK"
         THEN List(convert_to_turn_directions(resp.steps, readings))
         ELSE None
    ELSE None

InitDirections ==
    /\ pc = "call"
    /\ \E resp \in ConvResponses, readings \in HeadingSamples \X HeadingSamples :
         call = [fn |-> "get_directions", response |-> resp,
                 readings |-> readings, steps |-> None, result |-> None]
    /\ NoSession

\* get_directions(origin, destination), the provider answering call.response
DirectionsCall ==
    /\ pc = "call"
    /\ call.fn = "get_directions"
    /\ call' = [call EXCEPT
                  !.steps = GPS_Navigator_get_directions_steps(
                                call.response, call.readings),
                  !.result = GPS_Navigator_get_directions(call.response)]
    /\ heading_reads' = GPS_Navigator_heading_reads(call.response)
    /\ pc' = "returned"
    /\ UNCHANGED <<current_location, response, steps, step_idx, prev_distance,
                   distance, prev_step, closest_step, event, onplan,
                   last_notified>>

NextDirections == DirectionsCall

SpecDirections == InitDirections /\ [][NextDirections]_vars

----------------------------------------------------------------------------
(***************************************************************************)
(* Properties.                                                             *)
(***************************************************************************)

\* the ends of the steps of a route are pairwise farther apart than eps
PairwiseFar(route) ==
    \A i, j \in 1..Len(route) :
        i # j => geodesic_distance(route[i].end_location,
                                   route[j].end_location) > eps

\* C1 (SpecNavLoop): on every tick the distance that the tick compares with
\* eps and with prev_distance is the distance from the sample to the end of
\* the step at the current index, steps[step_idx].
C1_DistanceToCurrentStep ==
    [][pc = "tick" =>
         distance' = geodesic_distance(
                         current_location,
                         steps.list[step_idx + 1].end_location)]_vars

\* C2 (SpecNavLoop): with a 3-step route installed whose step ends are
\* pairwise farther apart than eps, the k-th of three consecutive samples,
\* within eps of the end of step k, is handled as the k-th arrival
\* (step_idx becomes k, the route stays, no new route is requested), so that
\* after the third the loop condition is false and the loop stops.
C2_ThreeArrivals ==
    [][(/\ pc = "tick"
        /\ onplan >= 1
        /\ Len(steps.list) = 3
        /\ PairwiseFar(steps.list))
       => (/\ NavArrive
           /\ step_idx' = onplan
           /\ (onplan = 3 => ~(step_idx' < Len(steps'.list))))]_vars

\* C3 (SpecNav): after the initial fetch, a 200/OK answer of the provider
\* with at least one step is not turned into None: its steps are installed
\* as the route, in provider order, and the session is in the tick loop.
C3_RouteReturned ==
    (/\ pc \in {"done", "loop", "crashed"}
     /\ response # None
     /\ response.http = 200
     /\ response.status = "OK"
     /\ Len(response.steps) >= 1)
    => (steps = List(response.steps) /\ pc = "loop")

\* C4 (SpecNavLoop): a tick whose sample is not within eps of the current
\* target steps[step_idx] and whose distance to it is strictly greater than
\* the distance recorded by the previous tick is a deviation: one new route
\* is requested and step_idx is not advanced.
C4_IncreaseIsDeviation ==
    [][(/\ pc = "tick"
        /\ LET d == geodesic_distance(
                        current_location,
                        steps.list[step_idx + 1].end_location)
           IN  d >= eps /\ d > prev_distance)
       => (/\ NavRerouted \/ NavRerouteEmpty \/ NavRerouteFailed
           /\ step_idx' <= step_idx)]_vars

\* C5 (SpecNavLoop): when a tick installs a new route after a deviation, the
\* next tick starts with step_idx = 0 and with prev_distance unset or
\* measured against the new route, never against the replaced one.
C5_ResetOnInstall ==
    [][NavRerouted =>
         /\ step_idx' = 0
         /\ prev_distance' \in
              {-1, geodesic_distance(current_location,
                                     steps'.list[1].end_location)}]_vars

\* C6 (SpecMain): a failure of the location provider during a tick does not
\* end the loop and leaves the route, the step index and the previous step
\* as they were.
C6_LocationFailureNonFatal ==
    [][MainPollFail =>
         /\ pc' \in {"loop", "tick"}
         /\ UNCHANGED <<steps, step_idx, prev_step, prev_distance>>]_vars

\* C7 (SpecMain): when a recomputation fails, the installed route stays
\* installed, step_idx is unchanged and the loop goes on; the loop never
\* crashes on the missing route.
C7_StaleRouteKept ==
    [][/\ MainRerouteFailed =>
            (steps' = steps /\ step_idx' = step_idx /\ pc' = "loop")
       /\ ~MainLoopCrash]_vars

\* C8 (SpecMain): get_directions never hands back an empty route: whenever
\* steps holds a list, the list has at least one step.
C8_RouteNonEmpty ==
    steps # None => Len(steps.list) >= 1

\* C9 (FairSpecMain): if all provider calls succeed, the route has pairwise
\* distinct instructions and the samples come within the threshold of each
\* step's end in route order and then stay within the threshold of the last
\* step's end, the session eventually ends.
C9_FinalArrivalEnds ==
    <>(onplan = -1 \/ pc = "done")

\* C10 (SpecMain): with a route installed, 0 <= step_idx <= len(steps), and
\* once step_idx = len(steps) no further tick is processed.
C10_IndexInRange ==
    (steps # None /\ Len(steps.list) >= 1) =>
        /\ 0 <= step_idx
        /\ step_idx <= Len(steps.list)
        /\ step_idx = Len(steps.list) => pc # "tick"

\* C11 (SpecMain): a "Current step" notification is emitted only when its
\* instruction text differs from the text of the notification emitted
\* before it, recomputations of the route included.
C11_NotifyOnlyOnChange ==
    [][MainArrive => last_notified' # last_notified]_vars

\* C12 (SpecTurn): for every whole heading h in [0, 360) and every cardinal
\* name c, get_turn_direction(h, c) is "right" when
\* (bearing(c) - h + 360) mod 360 < 180, that is when the bearing of c is
\* reached from h by turning clockwise by less than 180 degrees, and "left"
\* otherwise, never another value; (0, north) gives right and (180, north)
\* gives left.
C12_TurnDirection ==
    pc = "returned" =>
        LET h == call.current_heading
            b == cardinal_directions[call.target_cardinal_direction]
        IN  /\ call.result \in {"left", "right"}
            /\ call.result = "right" <=> (b - h + 360) % 360 < 180
            /\ call.result = "right" <=>
                 \E k \in 0..179 : (h + k) % 360 = b
            /\ (h = 0 /\ b = 0) => call.result = "right"
            /\ (h = 180 /\ b = 0) => call.result = "left"

C12_Witness ==
    /\ pc = "returned"
    /\ call.current_heading = 180
    /\ call.target_cardinal_direction = "north"
    /\ call.result = "left"

\* C13 (SpecMain; the same formula holds under SpecNav): when the initial
\* route fetch fails (get_directions returns None), the session has ended
\* before the tick loop: no sample has been handled by the loop, no step
\* notification has been emitted, and nothing more happens (no poll, no
\* further route request).
C13_InitialFailureEnds ==
    (response # None /\ steps = None /\ event = "none") =>
        /\ pc = "done"
        /\ distance = -1
        /\ last_notified = 0
        /\ ~ENABLED NextMain
        /\ ~ENABLED NextNav
        /\ ~ENABLED NextNavLoop

C13_Witness ==
    /\ pc = "done"
    /\ steps = None
    /\ response # None
    /\ response.http = 500

\* C14 as claimed (SpecMain): a tick whose distance to the nearest step end
\* is >= the threshold is a no-change tick: no new route is requested and
\* the route, step_idx and prev_step are left as they were.
C14_FarTickNoChange ==
    [][(pc = "tick" /\ MainClosest[2] >= threshold) =>
         /\ ~(MainRerouted \/ MainRerouteFailed)
         /\ UNCHANGED <<steps, step_idx, prev_step>>]_vars

\* C14 as amended (SpecMain): a tick whose distance to the nearest step end
\* is >= the threshold is a recomputation: one new route is requested and
\* its result is assigned to steps; on success step_idx is reset to 0 and
\* prev_step becomes the nearest step of the replaced route, on failure
\* step_idx and prev_step stay; no notification is emitted.
C14_FarTickReroutes ==
    [][(pc = "tick" /\ MainClosest[2] >= threshold) =>
         /\ MainRerouted \/ MainRerouteFailed
         /\ steps' = get_directions(response')
         /\ IF steps' # None
            THEN step_idx' = 0 /\ prev_step' = MainClosest[1]
            ELSE UNCHANGED <<step_idx, prev_step>>
         /\ last_notified' = last_notified]_vars

C14_Witness ==
    /\ pc = "loop"
    /\ event = "rerouted"
    /\ distance >= threshold
    /\ steps # None
    /\ step_idx = 0

C16_NoChangeTick ==
    [][pc = "tick" =>
         \A d \in {NavDistance,
                   geodesic_distance(current_location,
                                     steps.list[step_idx + 1].end_location)} :
            (eps <= d /\ d <= prev_distance) =>
               /\ NavNoChange
               /\ event' = "nochange"
               /\ UNCHANGED <<steps, step_idx, response, last_notified>>
               /\ heading_reads' = 0
               /\ prev_distance' = d]_vars

C16_Witness ==
    /\ pc = "loop"
    /\ event = "nochange"
    /\ distance >= eps
    /\ prev_distance = distance
    /\ step_idx = 0
    /\ heading_reads = 0

\* C17 (SpecMain): on a tick with a non-empty step list, get_closest_step
\* returns the minimum of the distances from the sample to the step ends,
\* together with the earliest step of the list at that distance; the list
\* itself is as before unless the tick goes on to request a new route.
C17_ClosestIsEarliestMinimum ==
    [][(pc = "tick" /\ Len(steps.list) > 0) =>
         LET route == steps.list
             d(i) == geodesic(route[i].end_location, current_location)
             first == CHOOSE i \in 1..Len(route) :
                         /\ \A j \in 1..Len(route) : d(i) <= d(j)
                         /\ \A j \in 1..(i - 1) : d(j) > d(i)
         IN  /\ MainClosest = <<route[first], d(first)>>
             /\ closest_step' = route[first]
             /\ distance' = d(first)
             /\ \A j \in 1..Len(route) : distance' <= d(j)
             /\ ~(MainRerouted \/ MainRerouteFailed) => steps' = steps]_vars

\* a tie between two different steps was decided for the first
C17_Witness ==
    /\ pc = "loop"
    /\ event \in {"arrived", "same", "prev_none"}
    /\ steps # None
    /\ Len(steps.list) = 2
    /\ steps.list[1] # steps.list[2]
    /\ geodesic(steps.list[1].end_location, current_location) = distance
    /\ geodesic(steps.list[2].end_location, current_location) = distance
    /\ closest_step = steps.list[1]

\* a cardinal name still to be read in an instruction of the provider
CardinalChunks == {"north", "south", "east", "west"}

\* the instruction read left to right, the longest cardinal name at each
\* place (a compound before its first component) becoming word[name], any
\* other chunk staying
RECURSIVE Resolved(_, _)
Resolved(text, word) ==
    IF text = <<>>
    THEN <<>>
    ELSE LET compound == {c \in Cardinals :
                            /\ Len(spelling[c]) = 2
                            /\ Len(text) >= 2
                            /\ SubSeq(text, 1, 2) = spelling[c]}
             simple == {c \in Cardinals : spelling[c] = <<Head(text)>>}
         IN  IF compound # {}
             THEN <<word[CHOOSE c \in compound : TRUE]>>
                      \o Resolved(SubSeq(text, 3, Len(text)), word)
             ELSE IF simple # {}
                  THEN <<word[CHOOSE c \in simple : TRUE]>>
                           \o Resolved(Tail(text), word)
                  ELSE <<Head(text)>> \o Resolved(Tail(text), word)

\* C18 (SpecDirections): a get_directions call whose provider answers 200/OK
\* reads the heading once, and one assignment of turn words to the eight
\* names, the one of that first reading, accounts for every replacement in
\* every step of the route: the same name never becomes two different
\* words; a call whose provider fails reads no heading and converts nothing.
C18_OneHeadingPerFetch ==
    pc = "returned" =>
        IF call.response.http = 200 /\ call.response.status = "OK"
        THEN /\ heading_reads = 1
             /\ call.steps # None
             /\ \E word \in [Cardinals -> {"left", "right"}] :
                   /\ \A c \in Cardinals :
                        word[c] = get_turn_direction(call.readings[1], c)
                   /\ \A index \in 1..Len(call.response.steps) :
                        call.steps.list[index].html_instructions =
                            Resolved(call.response.steps[index].html_instructions,
                                     word)
        ELSE /\ heading_reads = 0
             /\ call.steps = None

\* the name north in two steps, the heading provider answering differently
\* to a second read
C18_Witness ==
    /\ pc = "returned"
    /\ heading_reads = 1
    /\ call.readings = <<0, 120>>
    /\ Len(call.response.steps) = 2
    /\ call.response.steps[1].html_instructions = <<"north">>
    /\ call.response.steps[2].html_instructions = <<" on ", "north">>
    /\ call.steps.list[1].html_instructions = <<"right">>
    /\ call.steps.list[2].html_instructions = <<" on ", "right">>

\* C19 (SpecDirections): after convert_to_turn_directions no instruction
\* holds a cardinal name; a compound name has become the one turn word of
\* its own bearing (so an instruction of n chunks with m compound names has
\* n - m chunks, none left over from a component); the steps are as many as
\* before and in the same order.
C19_NoCardinalLeft ==
    (pc = "returned" /\ call.steps # None) =>
        LET before == call.response.steps
            after == call.steps.list
            own == [c \in Cardinals |->
                       get_turn_direction(call.readings[1], c)]
        IN  /\ Len(after) = Len(before)
            /\ \A index \in 1..Len(before) :
                 LET old == before[index].html_instructions
                     new == after[index].html_instructions
                 IN  /\ \A i \in 1..Len(new) : new[i] \notin CardinalChunks
                     /\ \A c \in Cardinals : ~Contains(new, spelling[c])
                     /\ new = Resolved(old, own)
                     /\ \A i \in 1..(Len(old) - 1) :
                          (/\ \E c \in Cardinals :
                                SubSeq(old, i, i + 1) = spelling[c]
                           /\ \A j \in 1..(i - 1) : old[j] = " on ")
                          => new[i] = own[CHOOSE c \in Cardinals :
                                            SubSeq(old, i, i + 1) = spelling[c]]

\* southwest and its component south in one route, bearings on either side
C19_Witness ==
    /\ pc = "returned"
    /\ call.steps # None
    /\ call.readings[1] = 120
    /\ Len(call.response.steps) = 2
    /\ call.response.steps[1].html_instructions = <<" on ", "south", "west">>
    /\ call.response.steps[2].html_instructions = <<>>
    /\ call.steps.list[1].html_instructions = <<" on ", "right">>

====
